---- MODULE Spec2Model ----
(***************************************************************************)
(* A model of the DLR survey query pipeline (socios.py) and of the         *)
(* Bayesian-network evidence encoder (bn_evidence.py).                      *)
(*                                                                         *)
(* Tables are records [columns, rows]: columns is a sequence of column     *)
(* names and every row is a sequence of cells aligned with it, so that     *)
(* positional operations (iloc, the positional rename) are positional in   *)
(* the model too.  A cell is <<>> (NaN, a missing value) or <<v>>.         *)
(***************************************************************************)
EXTENDS Integers, Sequences, FiniteSets, TLC

VARIABLES store, pc, arg, ret, data, featureqs, fidx, featureframe,
          evidence, file, printed, err

vars == <<store, pc, arg, ret, data, featureqs, fidx, featureframe,
          evidence, file, printed, err>>

(***************************************************************************)
(* Bounds of the model.                                                    *)
(***************************************************************************)
\* cut inputs are drawn from b - MaxDelta .. b + MaxDelta around every bin edge b
MaxDelta == 1
\* respondent identifiers are 1 .. MaxID (0 is the "no identifier" value of links)
MaxID == 2
\* number of rows of the links table when loadID is exercised on its own
MaxLinks == 2

(***************************************************************************)
(* Cells and small helpers.                                                *)
(***************************************************************************)
NaN == <<>>
None == "None"
isna(c) == c = NaN
Range(s) == {s[i] : i \in DOMAIN s}

\* pandas.unique / Series.unique: first occurrences, in order of appearance
RECURSIVE unique(_)
unique(s) ==
    IF s = <<>> THEN <<>>
    ELSE LET r == unique(SubSeq(s, 1, Len(s) - 1))
             x == s[Len(s)]
         IN IF x \in Range(r) THEN r ELSE Append(r, x)

\* position of the first occurrence of x in s, 0 when absent
IndexOf(s, x) ==
    IF x \in Range(s) THEN CHOOSE i \in DOMAIN s : s[i] = x /\ \A j \in 1..(i-1) : s[j] # x
    ELSE 0

\* str(n) for an integer n, and '{:.0f}'.format(n) for an integral value n
DigitStr(d) ==
    CASE d = 0 -> "0" [] d = 1 -> "1" [] d = 2 -> "2" [] d = 3 -> "3" [] d = 4 -> "4"
      [] d = 5 -> "5" [] d = 6 -> "6" [] d = 7 -> "7" [] d = 8 -> "8" [] d = 9 -> "9"

RECURSIVE NatStr(_)
NatStr(n) == IF n < 10 THEN DigitStr(n) ELSE NatStr(n \div 10) \o DigitStr(n % 10)

str(n) == IF n < 0 THEN "-" \o NatStr(0 - n) ELSE NatStr(n)

\* '{:.0f}'.format applied to a cell with na_action=None: NaN is formatted too
format0f(c) == IF isna(c) THEN <<"nan">> ELSE <<str(c[1])>>

(***************************************************************************)
(* pandas.cut(x, bins, labels, right, include_lowest) on one cell.         *)
(***************************************************************************)
\* numpy searchsorted on the sorted sequence bins
searchsorted(bins, x, side) ==
    IF side = "left" THEN Cardinality({i \in DOMAIN bins : bins[i] < x})
    ELSE Cardinality({i \in DOMAIN bins : bins[i] <= x})

cut(c, bins, labels, right, include_lowest) ==
    IF isna(c) THEN NaN
    ELSE LET x == c[1]
             ids0 == searchsorted(bins, x, IF right THEN "left" ELSE "right")
             ids == IF include_lowest /\ x = bins[1] THEN 1 ELSE ids0
         IN IF ids = Len(bins) \/ ids = 0 THEN NaN ELSE <<labels[ids]>>

income_bins == <<0, 1800, 3200, 7800, 11600, 19116, 24500, 65600, 500000>>
income_labels == <<"R0-R1799", "R1800-R3199", "R3200-R7799", "R7800-R11599",
                   "R11600-R19115", "R19116-R24499", "R24500-R65499", "+R65500">>
floorarea_bins == <<0, 50, 80, 150, 250, 500>>
floorarea_labels == <<"0-50", "50-80", "80-150", "150-250", "250-500">>

cutIncomeRightClosed(c) == cut(c, income_bins, income_labels, TRUE, FALSE)
\* bn_evidence.py line 44
cutIncome(c) == cut(c, income_bins, income_labels, FALSE, TRUE)
\* bn_evidence.py line 45: right and include_lowest keep pandas' defaults
cutFloorArea(c) == cut(c, floorarea_bins, floorarea_labels, TRUE, FALSE)

(***************************************************************************)
(* The table store (loadTables): the tables of data/tables, read afresh by *)
(* every call.  groups and links are sequences of records; answers_num is  *)
(* positional because searchAnswers slices it with iloc.                   *)
(***************************************************************************)
\* groups: GroupID, Year (a string column), Location; group 0 is the
\* "no group" entry that links rows with GroupID 0 point to
groupsTable ==
    << [GroupID |-> 1, Year |-> "1999", Location |-> "1 Site A"],
       [GroupID |-> 2, Year |-> "2000", Location |-> "2 Site B"],
       [GroupID |-> 0, Year |-> "2000", Location |-> "0 None"] >>

GroupIDs == {g.GroupID : g \in Range(groupsTable)}

\* the years a caller asks for: two with groups and one with none
Years == {1999, 2000, 2001}

\* a year argument: a number, the string a caller writes for it, or None
YearArgs ==
    {[kind |-> "int", v |-> y] : y \in Years}
    \cup {[kind |-> "str", s |-> t] : t \in {"1999", "2000", "2001"}}
    \cup {[kind |-> "none"]}

(***************************************************************************)
(* socios.loadID(year, id_name)                                            *)
(***************************************************************************)
\* lines 48-51: a string year is kept, any other year becomes str(year)
yearString(year) == IF year.kind = "str" THEN year.s ELSE str(year.v)

\* loadID without the two calls of unique()
loadIDNoUnique(links, groups, year, id_name) ==
    LET all_ids == SelectSeq(links, LAMBDA l : l.GroupID # 0 /\ l[id_name] # 0)
        proj(rows) == [i \in DOMAIN rows |-> rows[i][id_name]]
    IN IF year.kind = "none" THEN proj(all_ids)
       ELSE LET id_select == {g.GroupID : g \in {h \in Range(groups) : h.Year = yearString(year)}}
            IN proj(SelectSeq(all_ids, LAMBDA l : l.GroupID \in id_select))

loadID(links, groups, year, id_name) ==
    LET all_ids == SelectSeq(links, LAMBDA l : l.GroupID # 0 /\ l[id_name] # 0)
        proj(rows) == [i \in DOMAIN rows |-> rows[i][id_name]]
    IN IF year.kind = "none" THEN unique(proj(all_ids))
       ELSE LET id_select == {g.GroupID : g \in {h \in Range(groups) : h.Year = yearString(year)}}
            IN unique(proj(SelectSeq(all_ids, LAMBDA l : l.GroupID \in id_select)))

(***************************************************************************)
(* Question texts and search terms are sequences of characters, so that    *)
(* str.lower and str.contains are computed.                                *)
(***************************************************************************)
LowerMap ==
    "A" :> "a" @@ "B" :> "b" @@ "C" :> "c" @@ "D" :> "d" @@ "E" :> "e" @@ "F" :> "f" @@
    "G" :> "g" @@ "H" :> "h" @@ "I" :> "i" @@ "J" :> "j" @@ "K" :> "k" @@ "L" :> "l" @@
    "M" :> "m" @@ "N" :> "n" @@ "O" :> "o" @@ "P" :> "p" @@ "Q" :> "q" @@ "R" :> "r" @@
    "S" :> "s" @@ "T" :> "t" @@ "U" :> "u" @@ "V" :> "v" @@ "W" :> "w" @@ "X" :> "x" @@
    "Y" :> "y" @@ "Z" :> "z"

lower(t) == [i \in DOMAIN t |-> IF t[i] \in DOMAIN LowerMap THEN LowerMap[t[i]] ELSE t[i]]

\* Series.str.contains(pat) for a pattern without regular-expression operators
contains(text, pat) ==
    \E i \in 1..(Len(text) - Len(pat) + 1) : SubSeq(text, i, i + Len(pat) - 1) = pat

\* the search terms of bn_evidence.py line 28, and one that no question contains
T_earn == <<"e", "a", "r", "n", " ", "p", "e", "r", " ", "m", "o", "n", "t", "h">>
T_water == <<"w", "a", "t", "e", "r", "s", "o", "u", "r", "c", "e">>
T_gnum == <<"G", "e", "y", "s", "e", "r", "N", "u", "m", "b", "e", "r">>
T_gbrk == <<"G", "e", "y", "s", "e", "r", "B", "r", "o", "k", "e", "n">>
T_roof == <<"r", "o", "o", "f">>
T_wall == <<"w", "a", "l", "l">>
T_switch == <<"m", "a", "i", "n", " ", "s", "w", "i", "t", "c", "h">>
T_floor == <<"f", "l", "o", "o", "r", " ", "a", "r", "e", "a">>
T_solar == <<"s", "o", "l", "a", "r">>

searchlist == <<T_earn, T_water, T_gnum, T_gbrk, T_roof, T_wall, T_switch, T_floor>>

bn_n == <<"monthly_income", "water_access", "roof_material", "wall_material",
          "cb_size", "floor_area", "geyser_nr">>

(***************************************************************************)
(* The questions table.  ColumnNo is the offset (from 0) of the question's *)
(* column in the answer table of its data type.                            *)
(***************************************************************************)
Q(id, text, dtype, qnair, col) ==
    [QuestionID |-> id, Question |-> text, Datatype |-> dtype,
     QuestionaireID |-> qnair, ColumnNo |-> col]

\* one question per search term in questionnaire 3, two in questionnaire 6
baseQuestions ==
    << Q(0, <<"I", "n", "c", "o", "m", "e", ":", " ", "e", "a", "r", "n", " ", "p", "e", "r", " ", "m", "o", "n", "t", "h">>, "num", 3, 1),
       Q(1, <<"W", "a", "t", "e", "r", "s", "o", "u", "r", "c", "e">>, "num", 3, 2),
       Q(2, <<"G", "e", "y", "s", "e", "r", "N", "u", "m", "b", "e", "r">>, "num", 3, 3),
       Q(3, <<"G", "e", "y", "s", "e", "r", "B", "r", "o", "k", "e", "n">>, "num", 3, 4),
       Q(4, <<"R", "o", "o", "f", " ", "m", "a", "t", "e", "r", "i", "a", "l">>, "num", 3, 5),
       Q(5, <<"W", "a", "l", "l", " ", "m", "a", "t", "e", "r", "i", "a", "l">>, "num", 3, 6),
       Q(6, <<"M", "a", "i", "n", " ", "s", "w", "i", "t", "c", "h", " ", "s", "i", "z", "e">>, "num", 3, 7),
       Q(7, <<"F", "l", "o", "o", "r", " ", "a", "r", "e", "a">>, "num", 3, 8),
       Q(8, <<"R", "O", "O", "F", " ", "t", "y", "p", "e">>, "num", 6, 5),
       Q(9, <<"W", "a", "l", "l", " ", "t", "y", "p", "e">>, "num", 6, 6) >>

\* questions a survey wave may also hold: one that two terms match, a char
\* question that a term matches, and a second question about the roof
extraQuestions ==
    << Q(10, <<"R", "o", "o", "f", " ", "a", "n", "d", " ", "w", "a", "l", "l", " ", "a", "g", "e">>, "num", 3, 9),
       Q(11, <<"R", "o", "o", "f", " ", "c", "o", "l", "o", "u", "r">>, "char", 3, 1),
       Q(12, <<"R", "o", "o", "f", " ", "a", "g", "e">>, "num", 3, 9) >>

\* qconstraints: row i (its index, from 0) holds the bounds of question i
qconstraintsTable ==
    << [Lower |-> <<0>>, Upper |-> <<500000>>], [Lower |-> <<1>>, Upper |-> <<9>>],
       [Lower |-> <<0>>, Upper |-> <<9>>], [Lower |-> <<0>>, Upper |-> <<9>>] >>

\* the column names of answers_num, by offset; '115' and '131' are the names
\* bn_evidence.py line 34 reads the geyser columns by
answersNumColumns ==
    <<"AnswerID", "17", "22", "115", "131", "40", "41", "58", "60", "77">>

(***************************************************************************)
(* socios.loadQuestions, searchQuestions                                   *)
(***************************************************************************)
NoArg == <<>>

loadQuestions(st, dtype) ==
    IF dtype = None THEN st.questions
    ELSE SelectSeq(st.questions, LAMBDA q : q.Datatype = dtype)

\* line 99: qu.join(qcons, 'QuestionID'): a left join of the QuestionID column
\* against the index of qconstraints
joinConstraints(qu, qcons) ==
    [i \in DOMAIN qu |->
        LET q == qu[i]
            hit == q.QuestionID + 1 \in DOMAIN qcons
        IN [QuestionID |-> q.QuestionID, Question |-> q.Question, Datatype |-> q.Datatype,
            QuestionaireID |-> q.QuestionaireID, ColumnNo |-> q.ColumnNo,
            Lower |-> IF hit THEN qcons[q.QuestionID + 1].Lower ELSE NaN,
            Upper |-> IF hit THEN qcons[q.QuestionID + 1].Upper ELSE NaN]]

resultColumns(q) ==
    [Question |-> q.Question, Datatype |-> q.Datatype, QuestionaireID |-> q.QuestionaireID,
     ColumnNo |-> q.ColumnNo, Lower |-> q.Lower, Upper |-> q.Upper]

\* searchQuestions without the test of line 103: any id subsets the table
searchQuestionsAnyId(st, searchterm, qnairid, dtype) ==
    LET terms0 == IF searchterm.islist THEN searchterm.v ELSE <<searchterm.v>>
        terms == [i \in DOMAIN terms0 |-> lower(terms0[i])]
        qdf0 == joinConstraints(loadQuestions(st, dtype), st.qconstraints)
        qdf == IF qnairid = NoArg THEN qdf0
               ELSE SelectSeq(qdf0, LAMBDA q : q.QuestionaireID = qnairid[1])
        hit == SelectSeq(qdf, LAMBDA q : \E i \in DOMAIN terms : contains(lower(q.Question), terms[i]))
    IN [kind |-> "table", rows |-> [i \in DOMAIN hit |-> resultColumns(hit[i])]]

\* searchterm is [islist, v]: one term, or a list of terms; qnairid is NoArg
\* (None) or <<id>>.  For an id that is not valid the message is printed and
\* None is returned (line 106).
searchQuestions(st, searchterm, qnairid, dtype) ==
    LET terms0 == IF searchterm.islist THEN searchterm.v ELSE <<searchterm.v>>
        terms == [i \in DOMAIN terms0 |-> lower(terms0[i])]
        qdf0 == joinConstraints(loadQuestions(st, dtype), st.qconstraints)
        qnairids == st.questionaires
        valid == qnairid = NoArg \/ qnairid[1] \in Range(qnairids)
        qdf == IF qnairid = NoArg THEN qdf0
               ELSE SelectSeq(qdf0, LAMBDA q : q.QuestionaireID = qnairid[1])
        hit == SelectSeq(qdf, LAMBDA q : \E i \in DOMAIN terms : contains(lower(q.Question), terms[i]))
    IN IF ~valid
       THEN [kind |-> "None", printed |-> <<"Please select a valid QuestionaireID", qnairids>>]
       ELSE [kind |-> "table", rows |-> [i \in DOMAIN hit |-> resultColumns(hit[i])]]

(***************************************************************************)
(* socios.loadAnswers, searchAnswers                                       *)
(***************************************************************************)
\* dtype None: the AnswerID / QuestionaireID association; 'num': answers_num
loadAnswers(st, dtype) == IF dtype = None THEN st.answers ELSE st.answers_num

col(T, name) == IndexOf(T.columns, name)

\* DataFrame.iloc[:, positions] with offsets counted from 0
iloc(T, positions) ==
    [columns |-> [j \in DOMAIN positions |-> T.columns[positions[j] + 1]],
     rows |-> [i \in DOMAIN T.rows |-> [j \in DOMAIN positions |-> T.rows[i][positions[j] + 1]]]]

\* boolean selection T[T[k].isin(ids)]
selectRows(T, k, ids) ==
    [columns |-> T.columns, rows |-> SelectSeq(T.rows, LAMBDA r : r[k][1] \in ids)]

\* the None that searchQuestions returns for an invalid questionnaire id is
\* subscripted at line 127: a TypeError
searchAnswers(st, searchterm, qnairid, dtype) ==
    LET allans == loadAnswers(st, None)
        ans == loadAnswers(st, dtype)
        questions == searchQuestions(st, searchterm, <<qnairid>>, dtype)
        answered == {a.AnswerID : a \in {b \in Range(allans) : b.QuestionaireID = qnairid}}
        k == col(ans, "AnswerID")
        result == selectRows(ans, k, answered)
    IN IF questions.kind = "None" THEN [kind |-> "error", err |-> "TypeError", printed |-> questions.printed]
       ELSE [kind |-> "ok",
             result |-> iloc(result, <<0>> \o [i \in DOMAIN questions.rows |-> questions.rows[i].ColumnNo]),
             questions |-> [i \in DOMAIN questions.rows |->
                              [ColumnNo |-> questions.rows[i].ColumnNo, Question |-> questions.rows[i].Question]]]

(***************************************************************************)
(* pandas.merge(left, right, how, on='AnswerID')                           *)
(***************************************************************************)
RECURSIVE SortedSeq(_)
SortedSeq(S) ==
    IF S = {} THEN <<>>
    ELSE LET m == CHOOSE x \in S : \A y \in S : x <= y
         IN <<m>> \o SortedSeq(S \ {m})

RECURSIVE Flatten(_)
Flatten(ss) == IF ss = <<>> THEN <<>> ELSE Head(ss) \o Flatten(Tail(ss))

keyValues(T) == LET k == col(T, "AnswerID") IN [i \in DOMAIN T.rows |-> T.rows[i][k][1]]

dropAt(r, k) == [j \in 1..(Len(r) - 1) |-> IF j < k THEN r[j] ELSE r[j + 1]]

\* the key, then the right columns, then the other left columns
mergeColumnsRightFirst(L, R) ==
    LET rk == col(R, "AnswerID")
        lk == col(L, "AnswerID")
        rrest == dropAt(R.columns, rk)
        lrest == dropAt(L.columns, lk)
    IN <<"AnswerID">> \o rrest \o lrest

\* the columns of the result: the left columns, then the right columns without
\* the key; a name on both sides gets the suffixes _x and _y
mergeColumns(L, R) ==
    LET rk == col(R, "AnswerID")
        rrest == dropAt(R.columns, rk)
        both == (Range(L.columns) \cap Range(rrest)) \ {"AnswerID"}
    IN [j \in DOMAIN L.columns |-> IF L.columns[j] \in both THEN L.columns[j] \o "_x" ELSE L.columns[j]]
       \o [j \in DOMAIN rrest |-> IF rrest[j] \in both THEN rrest[j] \o "_y" ELSE rrest[j]]

\* the rows of the result for one key: every left row with the key paired with
\* every right row with it, NaN where a side has none
mergeKey(L, R, key) ==
    LET lk == col(L, "AnswerID")
        rk == col(R, "AnswerID")
        lrows == SelectSeq(L.rows, LAMBDA r : r[lk] = <<key>>)
        rrows == SelectSeq(R.rows, LAMBDA r : r[rk] = <<key>>)
        lpart == IF lrows = <<>>
                 THEN << [j \in DOMAIN L.columns |-> IF j = lk THEN <<key>> ELSE NaN] >>
                 ELSE lrows
        rpart == IF rrows = <<>>
                 THEN << [j \in 1..(Len(R.columns) - 1) |-> NaN] >>
                 ELSE [i \in DOMAIN rrows |-> dropAt(rrows[i], rk)]
    IN Flatten([i \in DOMAIN lpart |-> [j \in DOMAIN rpart |-> lpart[i] \o rpart[j]]])

\* how = 'inner': the keys of both sides, in the order of the left side
mergeInner(L, R) ==
    LET keys == SelectSeq(unique(keyValues(L)), LAMBDA x : x \in Range(keyValues(R)))
    IN [columns |-> mergeColumns(L, R),
        rows |-> Flatten([i \in DOMAIN keys |-> mergeKey(L, R, keys[i])])]

\* how = 'outer': the union of the keys of both sides, sorted
mergeOuter(L, R) ==
    LET keys == SortedSeq(Range(keyValues(L)) \cup Range(keyValues(R)))
    IN [columns |-> mergeColumns(L, R),
        rows |-> Flatten([i \in DOMAIN keys |-> mergeKey(L, R, keys[i])])]

(***************************************************************************)
(* socios.featureFrame(features, year)                                     *)
(***************************************************************************)
\* line 135: the working table starts as the AnswerIDs of the year
identityFrame(st, year) ==
    LET ids == loadID(st.links, st.groups, year, "AnswerID")
    IN [columns |-> <<"AnswerID">>, rows |-> [i \in DOMAIN ids |-> << <<ids[i]>> >>]]

\* lines 139-142: questionnaire 6 up to 1999, questionnaire 3 after
qnairidFor(year) == IF year.v <= 1999 THEN 6 ELSE 3

\* lines 146-147 without the isin filter of line 146
joinFeatureUnfiltered(dat, d) == mergeOuter(dat, d)

\* lines 146-147: the answers of respondents of the working table, outer-joined
joinFeature(dat, d) ==
    LET k == col(d, "AnswerID")
        have == Range(keyValues(dat))
        newdata == selectRows(d, k, have)
    IN mergeOuter(dat, newdata)

\* one pass of the loop of lines 138-148 for feature f; `year <= 1999` raises a
\* TypeError for a year that is not a number
featureStep(st, dat, fqs, f, year) ==
    IF year.kind # "int" THEN [kind |-> "error", err |-> "TypeError", printed |-> <<>>]
    ELSE LET ans == searchAnswers(st, [islist |-> FALSE, v |-> f], qnairidFor(year), "num")
         IN IF ans.kind = "error" THEN ans
            ELSE [kind |-> "ok",
                  data |-> joinFeature(dat, ans.result),
                  featureqs |-> fqs \o [i \in DOMAIN ans.questions |->
                                   [ColumnNo |-> ans.questions[i].ColumnNo,
                                    Question |-> ans.questions[i].Question, feature |-> f]]]

(***************************************************************************)
(* bn_evidence.evidence2000(year)                                          *)
(***************************************************************************)
\* T[name]: the cells of one column, by row
column(T, name) == [i \in DOMAIN T.rows |-> T.rows[i][col(T, name)]]

\* T[name] = values
setColumn(T, name, values) ==
    LET k == col(T, name)
    IN [columns |-> T.columns,
        rows |-> [i \in DOMAIN T.rows |->
                    [j \in DOMAIN T.columns |-> IF j = k THEN values[i] ELSE T.rows[i][j]]]]

\* Series.map('{:.0f}'.format, na_action=None) over one column
formatColumn(T, name) ==
    setColumn(T, name, [i \in DOMAIN T.rows |-> format0f(column(T, name)[i])])

\* float subtraction: NaN when either side is NaN
minus(a, b) == IF isna(a) \/ isna(b) THEN NaN ELSE <<a[1] - b[1]>>

\* lines 34-35: geyser_nr is appended as the last column, then the two geyser
\* columns are dropped; a frame without a column '115' or '131' is a KeyError
deriveGeyser(ff) ==
    LET a == col(ff, "115")
        b == col(ff, "131")
        keep == SelectSeq([j \in DOMAIN ff.columns |-> j], LAMBDA j : j # a /\ j # b)
    IN IF a = 0 \/ b = 0 THEN [kind |-> "error", err |-> "KeyError"]
       ELSE [kind |-> "ok",
             frame |-> [columns |-> [j \in DOMAIN keep |-> ff.columns[keep[j]]] \o <<"geyser_nr">>,
                        rows |-> [i \in DOMAIN ff.rows |->
                                    [j \in DOMAIN keep |-> ff.rows[i][keep[j]]]
                                    \o << minus(ff.rows[i][a], ff.rows[i][b]) >>]]]

\* line 36: the columns are renamed by position; a frame with another number
\* of columns is a ValueError (length mismatch)
renameColumns(ff) ==
    LET names == <<"AnswerID">> \o bn_n
    IN IF Len(ff.columns) # Len(names) THEN [kind |-> "error", err |-> "ValueError"]
       ELSE [kind |-> "ok", frame |-> [columns |-> names, rows |-> ff.rows]]

\* lines 44-52: the two cuts, then '{:.0f}'.format mapped over six columns
encodeColumns(ff) ==
    LET c1 == setColumn(ff, "monthly_income",
                        [i \in DOMAIN ff.rows |-> cutIncome(column(ff, "monthly_income")[i])])
        c2 == setColumn(c1, "floor_area",
                        [i \in DOMAIN c1.rows |-> cutFloorArea(column(c1, "floor_area")[i])])
        c3 == formatColumn(c2, "water_access")
        c4 == formatColumn(c3, "roof_material")
        c5 == formatColumn(c4, "wall_material")
        c6 == formatColumn(c5, "cb_size")
        c7 == formatColumn(c6, "geyser_nr")
    IN formatColumn(c7, "AnswerID")

\* line 54: replace(np.nan, ''): NaN cells become the empty string; the string
\* 'nan' is not NaN
replaceNaN(ff) ==
    [columns |-> ff.columns,
     rows |-> [i \in DOMAIN ff.rows |->
                 [j \in DOMAIN ff.columns |-> IF isna(ff.rows[i][j]) THEN <<"">> ELSE ff.rows[i][j]]]]

\* A Python dict is a sequence of <<key, value>> pairs with distinct keys, in
\* insertion order.
dictKeys(d) == {d[i][1] : i \in DOMAIN d}
dictGet(d, k) == d[CHOOSE i \in DOMAIN d : d[i][1] = k][2]
dictSet(d, k, v) ==
    IF k \in dictKeys(d) THEN [i \in DOMAIN d |-> IF d[i][1] = k THEN <<k, v>> ELSE d[i]]
    ELSE Append(d, <<k, v>>)

RECURSIVE dictFromPairs(_)
dictFromPairs(ps) ==
    IF ps = <<>> THEN <<>>
    ELSE LET n == Len(ps) IN dictSet(dictFromPairs(SubSeq(ps, 1, n - 1)), ps[n][1], ps[n][2])

\* lines 55, 58: set_index('AnswerID') and to_dict('index')
toDictIndex(ff) ==
    LET k == col(ff, "AnswerID")
        others == SelectSeq([j \in DOMAIN ff.columns |-> j], LAMBDA j : j # k)
    IN dictFromPairs([i \in DOMAIN ff.rows |->
          << ff.rows[i][k][1],
             dictFromPairs([j \in DOMAIN others |-> <<ff.columns[others[j]], ff.rows[i][others[j]][1]>>]) >>])

\* lines 59-66: a record keeps the items whose value is not the empty string
buildEvidence(featuredict) ==
    [i \in DOMAIN featuredict |->
        << featuredict[i][1], SelectSeq(featuredict[i][2], LAMBDA kv : kv[2] # "") >>]

(***************************************************************************)
(* json.dump and json.load.  The text is a sequence of tokens: the         *)
(* punctuation of an object and quoted strings.                            *)
(***************************************************************************)
LB == <<"{">>
RB == <<"}">>
COLON == <<":">>
COMMA == <<",">>
Quoted(x) == <<"string", x>>

\* an object whose members are the pairs <<key, text of the value>> of d
dumpMembers(d) ==
    <<LB>> \o Flatten([i \in DOMAIN d |->
                (IF i > 1 THEN <<COMMA>> ELSE <<>>) \o <<Quoted(d[i][1]), COLON>> \o d[i][2]])
    \o <<RB>>

dumpRecord(d) == dumpMembers([i \in DOMAIN d |-> <<d[i][1], <<Quoted(d[i][2])>>>>])

dumpRecords(e) == dumpMembers([i \in DOMAIN e |-> <<e[i][1], dumpRecord(e[i][2])>>])

\* json.dump of the first respondent's record only
jsonDumpFirstOnly(e) == dumpRecords(IF e = <<>> THEN e ELSE <<e[1]>>)

\* line 72: json.dump(evidence, f)
jsonDump(e) == dumpRecords(e)

\* json.load of an object nested depth deep (depth 1: the values are strings);
\* toks[i] opens the object
RECURSIVE parseObject(_, _, _)
RECURSIVE parseMembers(_, _, _, _)
parseObject(toks, i, depth) ==
    IF toks[i + 1] = RB THEN [val |-> <<>>, next |-> i + 2]
    ELSE parseMembers(toks, i + 1, <<>>, depth)

parseMembers(toks, i, acc, depth) ==
    LET key == toks[i][2]
        v == IF depth = 1 THEN [val |-> toks[i + 2][2], next |-> i + 3]
             ELSE parseObject(toks, i + 2, depth - 1)
        acc2 == dictSet(acc, key, v.val)
    IN IF toks[v.next] = COMMA THEN parseMembers(toks, v.next + 1, acc2, depth)
       ELSE [val |-> acc2, next |-> v.next + 1]

jsonLoad(toks) == parseObject(toks, 1, 2).val

\* two dicts are equal when they hold the same keys with the same values
recordAsFunction(d) == [k \in dictKeys(d) |-> dictGet(d, k)]
mappingAsFunction(e) == [k \in dictKeys(e) |-> recordAsFunction(dictGet(e, k))]

\* line 69
evidenceFilename(year) == "bn_evidence_" \o str(year.v) \o ".txt"

(***************************************************************************)
(* The states of the table store.                                          *)
(***************************************************************************)
\* the answers of one respondent to the nine questions with a column
answerTemplates ==
    << << <<5000>>, <<5>>, <<2>>, <<1>>, <<3>>, <<4>>, <<60>>, <<90>>, <<7>> >>,
       << <<500000>>, <<6>>, <<3>>, NaN, <<8>>, <<9>>, NaN, <<0>>, <<11>> >> >>

\* what the store holds about one respondent: a links row (link = <<GroupID>>)
\* or none, and a row of answers (tmpl > 0) to questionnaire qn, or none
respondentProfiles ==
    { [link |-> <<2>>, tmpl |-> 0, qn |-> 3],
      [link |-> <<2>>, tmpl |-> 1, qn |-> 3],
      [link |-> <<2>>, tmpl |-> 2, qn |-> 3],
      [link |-> <<2>>, tmpl |-> 1, qn |-> 6],
      [link |-> NoArg, tmpl |-> 1, qn |-> 3],
      [link |-> <<1>>, tmpl |-> 1, qn |-> 6] }

\* the questions and questionnaires of a store: the base questions without
\* those dropped, the extra questions added, and the questionnaire ids
questionScenarios ==
    { [dropped |-> {}, extras |-> {}, questionaires |-> <<3, 5, 6, 8>>],
      [dropped |-> {}, extras |-> {10}, questionaires |-> <<3, 5, 6, 8>>],
      [dropped |-> {}, extras |-> {11}, questionaires |-> <<3, 5, 6, 8>>],
      [dropped |-> {2}, extras |-> {}, questionaires |-> <<3, 5, 6, 8>>],
      [dropped |-> {6}, extras |-> {}, questionaires |-> <<3, 5, 6, 8>>],
      [dropped |-> {5}, extras |-> {12}, questionaires |-> <<3, 5, 6, 8>>],
      [dropped |-> {}, extras |-> {}, questionaires |-> <<3, 5, 8>>],
      [dropped |-> {}, extras |-> {}, questionaires |-> <<5, 6, 8>>] }

IDs == 1..MaxID

storeOf(prof, sc) ==
    LET linked == SelectSeq([i \in IDs |-> i], LAMBDA i : prof[i].link # NoArg)
        answered == SelectSeq([i \in IDs |-> i], LAMBDA i : prof[i].tmpl > 0)
    IN [groups |-> groupsTable,
        links |-> [j \in DOMAIN linked |->
                     [GroupID |-> prof[linked[j]].link[1], AnswerID |-> linked[j], ProfileID |-> linked[j]]],
        questions |-> SelectSeq(baseQuestions, LAMBDA q : q.QuestionID \notin sc.dropped)
                      \o SelectSeq(extraQuestions, LAMBDA q : q.QuestionID \in sc.extras),
        qconstraints |-> qconstraintsTable,
        questionaires |-> sc.questionaires,
        answers |-> [j \in DOMAIN answered |->
                       [AnswerID |-> answered[j], QuestionaireID |-> prof[answered[j]].qn]],
        answers_num |-> [columns |-> answersNumColumns,
                         rows |-> [j \in DOMAIN answered |->
                                     << <<answered[j]>> >> \o answerTemplates[prof[answered[j]].tmpl]]]]

\* a store whose links table is any sequence of up to MaxLinks rows
linkRows == [GroupID : GroupIDs, AnswerID : 0..MaxID, ProfileID : 0..1]
SeqsUpTo(S, n) == UNION {[1..m -> S] : m \in 0..n}

storeWithLinks(links) ==
    [groups |-> groupsTable, links |-> links, questions |-> baseQuestions,
     qconstraints |-> qconstraintsTable, questionaires |-> <<3, 5, 6, 8>>,
     answers |-> <<>>, answers_num |-> [columns |-> answersNumColumns, rows |-> <<>>]]

noFrame == [columns |-> <<>>, rows |-> <<>>]
noFile == [written |-> FALSE]
noRet == [kind |-> "pending"]

Fresh ==
    /\ pc = "idle"
    /\ arg = [op |-> "none"]
    /\ ret = noRet
    /\ data = noFrame
    /\ featureqs = <<>>
    /\ fidx = 0
    /\ featureframe = noFrame
    /\ evidence = <<>>
    /\ file = noFile
    /\ printed = <<>>
    /\ err = "none"

(***************************************************************************)
(* The query pipeline: searchQuestions, searchAnswers, featureFrame and    *)
(* evidence2000 called on a store.                                         *)
(***************************************************************************)
Init ==
    /\ \E prof \in [IDs -> respondentProfiles], sc \in questionScenarios : store = storeOf(prof, sc)
    /\ Fresh

oneTerm(t) == [islist |-> FALSE, v |-> t]

searchQuestionsCalls ==
    { [searchterm |-> oneTerm(T_roof), qnairid |-> <<3>>, dtype |-> "num"],
      [searchterm |-> oneTerm(T_roof), qnairid |-> NoArg, dtype |-> None],
      [searchterm |-> oneTerm(T_roof), qnairid |-> <<6>>, dtype |-> "num"],
      [searchterm |-> oneTerm(T_roof), qnairid |-> <<7>>, dtype |-> "num"],
      [searchterm |-> oneTerm(T_solar), qnairid |-> <<3>>, dtype |-> "num"],
      [searchterm |-> oneTerm(<<>>), qnairid |-> <<3>>, dtype |-> "char"],
      [searchterm |-> [islist |-> TRUE, v |-> <<T_roof, T_wall>>], qnairid |-> <<3>>, dtype |-> "num"] }

CallSearchQuestions ==
    /\ pc = "idle"
    /\ \E c \in searchQuestionsCalls :
         LET r == searchQuestions(store, c.searchterm, c.qnairid, c.dtype)
         IN /\ arg' = [op |-> "searchQuestions", searchterm |-> c.searchterm,
                       qnairid |-> c.qnairid, dtype |-> c.dtype]
            /\ ret' = IF r.kind = "None" THEN [kind |-> "None"] ELSE r
            /\ printed' = IF r.kind = "None" THEN r.printed ELSE <<>>
    /\ pc' = "done"
    /\ UNCHANGED <<store, data, featureqs, fidx, featureframe, evidence, file, err>>

searchAnswersCalls ==
    { [searchterm |-> oneTerm(T_roof), qnairid |-> 3],
      [searchterm |-> oneTerm(T_solar), qnairid |-> 3],
      [searchterm |-> oneTerm(T_roof), qnairid |-> 7],
      [searchterm |-> [islist |-> TRUE, v |-> <<T_roof, T_wall>>], qnairid |-> 6] }

CallSearchAnswers ==
    /\ pc = "idle"
    /\ \E c \in searchAnswersCalls :
         LET r == searchAnswers(store, c.searchterm, c.qnairid, "num")
         IN /\ arg' = [op |-> "searchAnswers", searchterm |-> c.searchterm,
                       qnairid |-> c.qnairid, dtype |-> "num"]
            /\ ret' = IF r.kind = "error" THEN noRet
                      ELSE [kind |-> "pair", result |-> r.result, questions |-> r.questions]
            /\ printed' = IF r.kind = "error" THEN r.printed ELSE <<>>
            /\ err' = IF r.kind = "error" THEN r.err ELSE "none"
            /\ pc' = IF r.kind = "error" THEN "error" ELSE "done"
    /\ UNCHANGED <<store, data, featureqs, fidx, featureframe, evidence, file>>

featureLists ==
    { <<>>, <<T_roof>>, <<T_solar>>, <<T_roof, T_wall>>, <<T_solar, T_gnum>>, <<T_roof, T_roof>> }

\* the calls of featureFrame: every list with a numeric year, and two with the
\* year as a string
featureFrameCalls ==
    { [features |-> fs, year |-> [kind |-> "int", v |-> y]] : fs \in featureLists, y \in {1999, 2000} }
    \cup { [features |-> fs, year |-> [kind |-> "str", s |-> "2000"]] : fs \in {<<>>, <<T_roof>>} }

\* lines 135-136
CallFeatureFrame ==
    /\ pc = "idle"
    /\ \E c \in featureFrameCalls :
         /\ arg' = [op |-> "featureFrame", features |-> c.features, year |-> c.year]
         /\ data' = identityFrame(store, c.year)
    /\ featureqs' = <<>>
    /\ fidx' = 1
    /\ pc' = "ff_loop"
    /\ UNCHANGED <<store, ret, featureframe, evidence, file, printed, err>>

\* lines 138-148, one feature
FeatureIter ==
    /\ pc = "ff_loop"
    /\ fidx <= Len(arg.features)
    /\ LET r == featureStep(store, data, featureqs, arg.features[fidx], arg.year)
       IN IF r.kind = "error"
          THEN /\ pc' = "error"
               /\ err' = r.err
               /\ printed' = r.printed
               /\ UNCHANGED <<data, featureqs, fidx>>
          ELSE /\ data' = r.data
               /\ featureqs' = r.featureqs
               /\ fidx' = fidx + 1
               /\ UNCHANGED <<pc, err, printed>>
    /\ UNCHANGED <<store, arg, ret, featureframe, evidence, file>>

\* lines 149-151: the pair is returned to the caller, which is evidence2000
\* (bn_evidence.py line 31) or the user
FeatureReturn ==
    /\ pc = "ff_loop"
    /\ fidx > Len(arg.features)
    /\ IF arg.op = "evidence2000"
       THEN pc' = "ev_called" /\ UNCHANGED ret
       ELSE pc' = "done" /\ ret' = [kind |-> "pair", data |-> data, featureqs |-> featureqs]
    /\ UNCHANGED <<store, arg, data, featureqs, fidx, featureframe, evidence, file, printed, err>>

evidenceYears == {[kind |-> "int", v |-> y] : y \in Years}

\* lines 28-31: evidence2000 calls the feature frame (imported under the name
\* buildFeatureFrame) on searchlist
CallEvidence ==
    /\ pc = "idle"
    /\ \E y \in evidenceYears :
         /\ arg' = [op |-> "evidence2000", features |-> searchlist, year |-> y]
         /\ data' = identityFrame(store, y)
    /\ featureqs' = <<>>
    /\ fidx' = 1
    /\ pc' = "ff_loop"
    /\ UNCHANGED <<store, ret, featureframe, evidence, file, printed, err>>

\* lines 32-36: the geyser derivation, the drop of the geyser columns, the
\* positional rename
EvBuild ==
    /\ pc = "ev_called"
    /\ LET g == deriveGeyser(data)
           rn == renameColumns(g.frame)
           bad == IF g.kind = "error" THEN g.err
                  ELSE IF rn.kind = "error" THEN rn.err ELSE "none"
       IN IF bad # "none"
          THEN /\ pc' = "error"
               /\ err' = bad
               /\ UNCHANGED featureframe
          ELSE /\ pc' = "ev_renamed"
               /\ featureframe' = rn.frame
               /\ UNCHANGED err
    /\ UNCHANGED <<store, arg, ret, data, featureqs, fidx, evidence, file, printed>>

\* lines 39-55
EvEncode ==
    /\ pc = "ev_renamed"
    /\ featureframe' = replaceNaN(encodeColumns(featureframe))
    /\ pc' = "ev_encoded"
    /\ UNCHANGED <<store, arg, ret, data, featureqs, fidx, evidence, file, printed, err>>

\* lines 58-66
EvDict ==
    /\ pc = "ev_encoded"
    /\ evidence' = buildEvidence(toDictIndex(featureframe))
    /\ pc' = "ev_dict"
    /\ UNCHANGED <<store, arg, ret, data, featureqs, fidx, featureframe, file, printed, err>>

\* lines 69-73
EvWrite ==
    /\ pc = "ev_dict"
    /\ file' = [written |-> TRUE, name |-> evidenceFilename(arg.year), text |-> jsonDump(evidence)]
    /\ printed' = <<evidenceFilename(arg.year) \o " successfully saved to ", "output">>
    /\ pc' = "ev_written"
    /\ UNCHANGED <<store, arg, ret, data, featureqs, fidx, featureframe, evidence, err>>

\* line 75: `return #evidence` returns None
EvReturn ==
    /\ pc = "ev_written"
    /\ ret' = [kind |-> "None"]
    /\ pc' = "done"
    /\ UNCHANGED <<store, arg, data, featureqs, fidx, featureframe, evidence, file, printed, err>>

Next ==
    \/ CallSearchQuestions
    \/ CallSearchAnswers
    \/ CallFeatureFrame
    \/ FeatureIter
    \/ FeatureReturn
    \/ CallEvidence
    \/ EvBuild
    \/ EvEncode
    \/ EvDict
    \/ EvWrite
    \/ EvReturn

Spec == Init /\ [][Next]_vars

(***************************************************************************)
(* loadID called on its own, on any links table of up to MaxLinks rows.    *)
(***************************************************************************)
InitID ==
    /\ \E links \in SeqsUpTo(linkRows, MaxLinks) : store = storeWithLinks(links)
    /\ Fresh

CallLoadID ==
    /\ pc = "idle"
    /\ \E y \in YearArgs, id_name \in {"AnswerID", "ProfileID"} :
         /\ arg' = [op |-> "loadID", year |-> y, id_name |-> id_name]
         /\ ret' = [kind |-> "series", values |-> loadID(store.links, store.groups, y, id_name)]
    /\ pc' = "done"
    /\ UNCHANGED <<store, data, featureqs, fidx, featureframe, evidence, file, printed, err>>

NextID == CallLoadID

SpecID == InitID /\ [][NextID]_vars

(***************************************************************************)
(* The two cuts of evidence2000 applied to one cell.                       *)
(***************************************************************************)
cutInputs ==
    {NaN, <<5000>>, <<90>>}
    \cup { <<b + d>> : b \in Range(income_bins) \cup Range(floorarea_bins), d \in (0 - MaxDelta)..MaxDelta }

InitCut ==
    /\ store = storeWithLinks(<<>>)
    /\ pc = "idle"
    /\ \E c \in cutInputs : arg = [op |-> "cut", x |-> c]
    /\ ret = noRet
    /\ data = noFrame
    /\ featureqs = <<>>
    /\ fidx = 0
    /\ featureframe = noFrame
    /\ evidence = <<>>
    /\ file = noFile
    /\ printed = <<>>
    /\ err = "none"

\* bn_evidence.py line 44
CutIncome ==
    /\ pc = "idle"
    /\ ret' = [kind |-> "cell", column |-> "monthly_income", value |-> cutIncome(arg.x)]
    /\ pc' = "done"
    /\ UNCHANGED <<store, arg, data, featureqs, fidx, featureframe, evidence, file, printed, err>>

\* bn_evidence.py line 45
CutFloorArea ==
    /\ pc = "idle"
    /\ ret' = [kind |-> "cell", column |-> "floor_area", value |-> cutFloorArea(arg.x)]
    /\ pc' = "done"
    /\ UNCHANGED <<store, arg, data, featureqs, fidx, featureframe, evidence, file, printed, err>>

NextCut == CutIncome \/ CutFloorArea

SpecCut == InitCut /\ [][NextCut]_vars

(***************************************************************************)
(* Properties of the two cuts (SpecCut).                                   *)
(***************************************************************************)
\* C2: binning of monthly_income is total and exclusive over the boundaries
\* 0, 1800, 3200, 7800, 11600, 19116, 24500, 65600, 500000: an income v with
\* b_i <= v < b_(i+1) gets the i-th of the eight labels, and an income below 0
\* or from 500000 on becomes missing.
C2_IncomeBinning ==
    (pc = "done" /\ ret.column = "monthly_income" /\ arg.x # NaN) =>
        LET v == arg.x[1]
            b == <<0, 1800, 3200, 7800, 11600, 19116, 24500, 65600, 500000>>
            l == <<"R0-R1799", "R1800-R3199", "R3200-R7799", "R7800-R11599",
                   "R11600-R19115", "R19116-R24499", "R24500-R65499", "+R65500">>
        IN /\ \A i \in 1..8 : (b[i] <= v /\ v < b[i + 1]) => ret.value = <<l[i]>>
           /\ (v < 0 \/ v >= 500000) => ret.value = NaN

C2_Witness ==
    /\ pc = "done"
    /\ ret.column = "monthly_income"
    /\ arg.x = <<1800>>
    /\ ret.value = <<"R1800-R3199">>

\* C3: binning of floor_area uses the ranges delimited by 0, 50, 80, 150, 250,
\* 500 left-inclusive and right-exclusive: a floor area v with
\* b_i <= v < b_(i+1) gets the i-th label (0 -> "0-50", 50 -> "50-80"), and a
\* floor area below 0 or from 500 on becomes missing.
C3_FloorAreaBinning ==
    (pc = "done" /\ ret.column = "floor_area" /\ arg.x # NaN) =>
        LET v == arg.x[1]
            b == <<0, 50, 80, 150, 250, 500>>
            l == <<"0-50", "50-80", "80-150", "150-250", "250-500">>
        IN /\ \A i \in 1..5 : (b[i] <= v /\ v < b[i + 1]) => ret.value = <<l[i]>>
           /\ (v < 0 \/ v >= 500) => ret.value = NaN

(***************************************************************************)
(* Properties of loadID (SpecID).                                          *)
(***************************************************************************)
yearNames == (1999 :> "1999") @@ (2000 :> "2000") @@ (2001 :> "2001")

\* C6: for a year given as a number or as a string, loadID returns no
\* duplicate and no zero identifier, and exactly the identifiers of the links
\* rows with a non-zero group of that year; both forms of a year return the
\* same series, and a year of no group returns the empty series.
C6_LoadID ==
    (pc = "done" /\ arg.op = "loadID" /\ arg.year.kind # "none") =>
        LET ids == ret.values
            Y == IF arg.year.kind = "str" THEN arg.year.s ELSE yearNames[arg.year.v]
            ofYear == {l \in Range(store.links) :
                         /\ l.GroupID # 0
                         /\ l[arg.id_name] # 0
                         /\ \E g \in Range(store.groups) : g.GroupID = l.GroupID /\ g.Year = Y}
        IN /\ \A i, j \in DOMAIN ids : ids[i] = ids[j] => i = j
           /\ 0 \notin Range(ids)
           /\ Range(ids) = {l[arg.id_name] : l \in ofYear}
           /\ arg.year.kind = "int" =>
                 ids = loadID(store.links, store.groups, [kind |-> "str", s |-> Y], arg.id_name)
           /\ (\A g \in Range(store.groups) : g.Year # Y) => ids = <<>>

C6_Witness ==
    /\ pc = "done"
    /\ arg.op = "loadID"
    /\ arg.id_name = "AnswerID"
    /\ arg.year.kind = "int"
    /\ arg.year.v = 2000
    /\ Len(store.links) = 2
    /\ \A i \in 1..2 : store.links[i].AnswerID = 1 /\ store.links[i].GroupID = 2
    /\ ret.values = <<1>>

(***************************************************************************)
(* Properties of the query pipeline (Spec).                                *)
(***************************************************************************)
\* C4: an id that is not in the questionnaire id set makes searchQuestions
\* report the valid id set and return no table; a run of searchAnswers,
\* featureFrame or evidence2000 that hands it one stops with an error before
\* it returns a result or writes the artifact.
C4_InvalidQuestionaire ==
    /\ (pc = "done" /\ arg.op = "searchQuestions" /\ arg.qnairid # NoArg
           /\ arg.qnairid[1] \notin Range(store.questionaires)) =>
          /\ ret.kind = "None"
          /\ printed = <<"Please select a valid QuestionaireID", store.questionaires>>
    /\ (arg.op = "searchAnswers" /\ arg.qnairid \notin Range(store.questionaires)) =>
          /\ pc = "error"
          /\ ret.kind = "pending"
          /\ printed = <<"Please select a valid QuestionaireID", store.questionaires>>
    /\ (arg.op \in {"featureFrame", "evidence2000"} /\ arg.year.kind = "int"
           /\ arg.features # <<>> /\ qnairidFor(arg.year) \notin Range(store.questionaires)) =>
          /\ pc \in {"ff_loop", "error"}
          /\ fidx = 1
          /\ ret.kind = "pending"
          /\ ~file.written
          /\ pc = "error" =>
                printed = <<"Please select a valid QuestionaireID", store.questionaires>>

C4_Witness ==
    /\ pc = "error"
    /\ arg.op = "evidence2000"
    /\ arg.year.v = 2000
    /\ 3 \notin Range(store.questionaires)
    /\ err = "TypeError"
    /\ printed = <<"Please select a valid QuestionaireID", <<5, 6, 8>> >>
    /\ ~file.written

\* the table of a featureFrame run: the working table while the loop runs, the
\* returned table after it
inFeatureFrame ==
    /\ arg.op \in {"featureFrame", "evidence2000"}
    /\ pc \in {"ff_loop", "ev_called", "done"}

identityOfRun == loadID(store.links, store.groups, arg.year, "AnswerID")

\* C5: after each pass of the loop of featureFrame and at its end, the table
\* has at least as many rows as loadID(year) has identifiers, holds every one
\* of them, and has no duplicate AnswerID.
C5_FeatureFrameRows ==
    inFeatureFrame =>
        LET keys == keyValues(data)
        IN /\ Len(data.rows) >= Len(identityOfRun)
           /\ Range(identityOfRun) \subseteq Range(keys)
           /\ \A i, j \in DOMAIN keys : keys[i] = keys[j] => i = j
           /\ (pc = "done" /\ arg.op = "featureFrame") => ret.data = data

C5_Witness ==
    /\ pc = "done"
    /\ arg.op = "featureFrame"
    /\ Len(arg.features) = 2
    /\ Len(ret.data.columns) = 3
    /\ Len(ret.data.rows) = 2
    /\ \E i \in 1..2 : ret.data.rows[i][2] = NaN
    /\ \E i \in 1..2 : ret.data.rows[i][2] # NaN

\* the respondents of the answer table searchAnswers extracts for feature f
extractedIDs(f) ==
    Range(keyValues(searchAnswers(store, oneTerm(f), qnairidFor(arg.year), "num").result))

\* the number of columns feature f adds
nColumnsOf(f) ==
    Len(searchAnswers(store, oneTerm(f), qnairidFor(arg.year), "num").questions)

\* C9 as stated: a respondent of the extracted answer set of a merged feature
\* is a row of the table, whether or not it is in loadID(year).
C9_OuterJoinRetainsBoth ==
    (arg.op = "featureFrame" /\ pc = "ff_loop" /\ fidx > 1) =>
        extractedIDs(arg.features[fidx - 1]) \subseteq Range(keyValues(data))

\* C9 amended: the extracted answers are restricted to the respondents of the
\* working table before the outer join, so the respondents of the table are
\* exactly those of loadID(year); a respondent without an extracted answer
\* row keeps its row, with null in the columns of the feature.
C9_JoinKeepsIdentity ==
    (arg.op = "featureFrame" /\ pc = "ff_loop" /\ fidx > 1) =>
        LET f == arg.features[fidx - 1]
            n == nColumnsOf(f)
            w == Len(data.columns)
        IN /\ Range(keyValues(data)) = Range(identityOfRun)
           /\ \A i \in DOMAIN data.rows :
                 data.rows[i][1][1] \notin extractedIDs(f) =>
                    \A j \in (w - n + 1)..w : data.rows[i][j] = NaN

C9_Witness ==
    /\ arg.op = "featureFrame"
    /\ pc = "ff_loop"
    /\ fidx = 2
    /\ nColumnsOf(arg.features[1]) = 1
    /\ extractedIDs(arg.features[1]) \ Range(identityOfRun) # {}
    /\ Range(identityOfRun) \ extractedIDs(arg.features[1]) # {}
    /\ Len(data.rows) = 1
    /\ data.rows[1][2] = NaN

\* the questions a term resolves to in the questionnaire of the run
matches(t) ==
    {q \in Range(store.questions) :
        /\ q.Datatype = "num"
        /\ q.QuestionaireID = qnairidFor(arg.year)
        /\ contains(lower(q.Question), lower(t))}

\* C10: a search term that matches no question is not an error: searchQuestions
\* returns an empty table, searchAnswers returns only the AnswerID column,
\* featureFrame goes on with the rows of its table unchanged, and a run of
\* evidence2000 with one of its terms unmatched completes, with the variable
\* of that term in no record.
C10_UnmatchedTerm ==
    /\ (pc \in {"done", "error"} /\ arg.op = "searchQuestions" /\ arg.searchterm = oneTerm(T_solar)
           /\ arg.qnairid[1] \in Range(store.questionaires)) =>
          ret = [kind |-> "table", rows |-> <<>>]
    /\ (pc \in {"done", "error"} /\ arg.op = "searchAnswers" /\ arg.searchterm = oneTerm(T_solar)
           /\ arg.qnairid \in Range(store.questionaires)) =>
          pc = "done" /\ ret.result.columns = <<"AnswerID">>
    /\ (arg.op = "featureFrame" /\ arg.year.kind = "int" /\ arg.features = <<T_solar, T_gnum>>
           /\ qnairidFor(arg.year) \in Range(store.questionaires)) =>
          /\ pc # "error"
          /\ fidx = 2 => data = identityFrame(store, arg.year)
    /\ (arg.op = "evidence2000" /\ arg.year.v = 2000 /\ 3 \in Range(store.questionaires)
           /\ matches(T_switch) = {}
           /\ \A i \in DOMAIN searchlist : searchlist[i] # T_switch => Cardinality(matches(searchlist[i])) = 1) =>
          /\ pc # "error"
          /\ pc = "done" =>
                /\ file.written
                /\ \A i \in DOMAIN evidence : "cb_size" \notin dictKeys(evidence[i][2])

\* the renamed frame of a run of evidence2000 (lines 34-36), before encoding
renamedFrame == renameColumns(deriveGeyser(data).frame).frame

\* C1: a variable whose value is missing for a respondent in the assembled
\* feature table is no key of the respondent's evidence record, and no record
\* holds an empty string or a rendering of not-a-number.
C1_MissingOmitted ==
    (arg.op = "evidence2000" /\ pc \in {"ev_dict", "ev_written", "done"}) =>
        /\ \A i \in DOMAIN renamedFrame.rows : \A n \in Range(bn_n) :
              isna(renamedFrame.rows[i][col(renamedFrame, n)]) =>
                 n \notin dictKeys(dictGet(evidence, str(renamedFrame.rows[i][1][1])))
        /\ \A i \in DOMAIN evidence : \A j \in DOMAIN evidence[i][2] :
              evidence[i][2][j][2] \notin {"", "nan", "NaN", "None", "null"}

\* C7 as stated: a successful evidence2000 returns the mapping, which is what
\* decoding the written artifact yields.
C7_ReturnsMapping ==
    (arg.op = "evidence2000" /\ pc = "done") =>
        /\ ret.kind = "mapping"
        /\ mappingAsFunction(ret.value) = mappingAsFunction(jsonLoad(file.text))

fileNames == (1999 :> "bn_evidence_1999.txt") @@ (2000 :> "bn_evidence_2000.txt")
             @@ (2001 :> "bn_evidence_2001.txt")

\* C7 amended: a successful evidence2000 returns None; the mapping it computed
\* in memory is what decoding the artifact bn_evidence_<year>.txt it wrote
\* yields: the same respondents, each with the same variables and values.
C7_ArtifactRoundTrip ==
    (arg.op = "evidence2000" /\ pc \in {"ev_written", "done"}) =>
        /\ file.written
        /\ file.name = fileNames[arg.year.v]
        /\ mappingAsFunction(jsonLoad(file.text)) = mappingAsFunction(evidence)
        /\ DOMAIN mappingAsFunction(evidence) =
              {str(renamedFrame.rows[i][1][1]) : i \in DOMAIN renamedFrame.rows}
        /\ pc = "done" => ret = [kind |-> "None"]

C7_Witness ==
    /\ arg.op = "evidence2000"
    /\ pc = "done"
    /\ Len(evidence) = 2
    /\ Len(evidence[1][2]) = 7
    /\ Len(evidence[2][2]) < 7
    /\ ret = [kind |-> "None"]

\* the cell of the answer table that respondent id gave to the one question
\* of term t: NaN for a respondent without a row for the questionnaire
rawValue(id, t) ==
    LET q == CHOOSE x \in matches(t) : TRUE
        rows == {r \in Range(store.answers_num.rows) :
                    /\ r[1] = <<id>>
                    /\ \E a \in Range(store.answers) :
                          a.AnswerID = id /\ a.QuestionaireID = qnairidFor(arg.year)}
    IN IF rows = {} THEN NaN ELSE (CHOOSE r \in rows : TRUE)[q.ColumnNo + 1]

oneColumnEach == \A i \in DOMAIN searchlist : Cardinality(matches(searchlist[i])) = 1

\* C8: when every term of searchlist resolves to one question column, each
\* node of the renamed frame carries, for every respondent, the values of its
\* own term, and geyser_nr is GeyserNumber - GeyserBroken (2 and 1 give "1").
C8_NodesCarryOwnTerm ==
    /\ (arg.op = "evidence2000" /\ pc = "ev_renamed" /\ oneColumnEach) =>
          \A i \in DOMAIN featureframe.rows :
             LET r == featureframe.rows[i]
                 id == r[1][1]
                 v(n) == r[col(featureframe, n)]
             IN /\ v("monthly_income") = rawValue(id, T_earn)
                /\ v("water_access") = rawValue(id, T_water)
                /\ v("roof_material") = rawValue(id, T_roof)
                /\ v("wall_material") = rawValue(id, T_wall)
                /\ v("cb_size") = rawValue(id, T_switch)
                /\ v("floor_area") = rawValue(id, T_floor)
                /\ v("geyser_nr") = minus(rawValue(id, T_gnum), rawValue(id, T_gbrk))
    /\ (arg.op = "evidence2000" /\ pc = "ev_dict" /\ oneColumnEach) =>
          \A i \in DOMAIN evidence :
             \A id \in IDs :
                (evidence[i][1] = str(id) /\ rawValue(id, T_gnum) = <<2>> /\ rawValue(id, T_gbrk) = <<1>>)
                   => dictGet(evidence[i][2], "geyser_nr") = "1"

C8_Witness ==
    /\ arg.op = "evidence2000"
    /\ pc = "ev_dict"
    /\ oneColumnEach
    /\ Len(evidence) = 2
    /\ \E i \in 1..2 : "geyser_nr" \in dictKeys(evidence[i][2]) /\ dictGet(evidence[i][2], "geyser_nr") = "1"
    /\ \E i \in 1..2 : "roof_material" \in dictKeys(evidence[i][2]) /\ dictGet(evidence[i][2], "roof_material") = "8"

====
